---- MODULE Spec2Model ----
(***************************************************************************)
(* A model of src/main.rs: a serde Deserializer over a slice of tagged     *)
(* integers (Value::I32 / Value::I64).                                     *)
(*                                                                         *)
(* Two specifications share the variables:                                 *)
(*   SpecCursor  a client calling the cursor's operations in any order;    *)
(*   Spec        one call of from_values::<T>(input), stepped through the  *)
(*               recursion T::deserialize -> deserialize_* -> visit_seq -> *)
(*               next_element_seed -> seed.deserialize -> ...              *)
(***************************************************************************)
EXTENDS Integers, Sequences, FiniteSets, TLC

\* ------------------------------------------------------------------ bounds

\* Longest input slice.
MaxLen == 5

\* Widest flat tuple of scalars among the targets.
MaxFields == 3

\* Longest input slice of SpecCursor, whose client calls in any order.
MaxCursorLen == 4

\* Most Point64 in the inputs shaped like harder_test's: four I32, then pairs
\* of I64.
MaxMorePoints == 2

\* ------------------------------------------------------------------ values

\* enum Value { I32(i32), I64(i64) }
Value(tag, v) == [tag |-> tag, v |-> v]

\* Payloads of the inputs: two signed integers per kind.
Payloads == {-1, 2}

Values == {Value(tag, v) : tag \in {"I32", "I64"}, v \in Payloads}

RECURSIVE SeqsOfLen(_, _)
SeqsOfLen(n, S) ==
    IF n = 0 THEN {<<>>}
    ELSE {Append(s, x) : s \in SeqsOfLen(n - 1, S), x \in S}

OfTag(tag) == {x \in Values : x.tag = tag}

\* Inputs shaped like harder_test's vector, with any payloads.
CompoundInputs ==
    UNION {{a \o b : a \in SeqsOfLen(4, OfTag("I32")), b \in SeqsOfLen(2 * m, OfTag("I64"))} :
           m \in 1..MaxMorePoints}

\* Every input up to MaxLen, and the longer ones shaped like harder_test's.
Inputs == UNION {SeqsOfLen(n, Values) : n \in 0..MaxLen} \cup CompoundInputs
CursorInputs == UNION {SeqsOfLen(n, Values) : n \in 0..MaxCursorLen}

\* ------------------------------------------------------------------ errors

NoErr == [kind |-> "none", expected |-> "", found |-> ""]

\* enum Error { InputNotEmpty, InputEmpty, TypeMismatch {..}, Message(String) }
InputNotEmpty == [kind |-> "InputNotEmpty", expected |-> "", found |-> ""]
InputEmpty == [kind |-> "InputEmpty", expected |-> "", found |-> ""]
TypeMismatch(expected, found) == [kind |-> "TypeMismatch", expected |-> expected, found |-> found]

\* impl de::Error for Error: custom(msg) = Error::Message(msg.to_string()).
\* The message kept is what the framework was expecting.
Message(msg) == [kind |-> "Message", expected |-> msg, found |-> ""]

\* ------------------------------------------------------------------ cursor

\* struct Deserializer { input, idx }
Deserializer(input, idx) == [input |-> input, idx |-> idx]

\* Deserializer::from_values
DeserializerFromValues(input) == Deserializer(input, 0)

\* The outcome of a cursor operation: the cursor after it, and Ok(val) or Err(err).
Ok(d, val) == [d |-> d, ok |-> TRUE, val |-> val, err |-> NoErr]
Err(d, err) == [d |-> d, ok |-> FALSE, val |-> 0, err |-> err]

\* self.input[i], zero-based as in the source
At(d, i) == d.input[i + 1]

\* Variant: peek_value that advances, as next_value does.
peek_value_consuming(d) ==
    IF d.idx >= Len(d.input) THEN Err(d, InputEmpty)
    ELSE Ok([d EXCEPT !.idx = d.idx + 1], At(d, d.idx))

peek_value(d) ==
    IF d.idx >= Len(d.input) THEN Err(d, InputEmpty)
    ELSE Ok(d, At(d, d.idx))

\* Variant: next_value with its bound check off by one.
next_value_off_by_one(d) ==
    IF d.idx > Len(d.input) THEN Err(d, InputEmpty)
    ELSE Ok([d EXCEPT !.idx = d.idx + 1],
            IF d.idx < Len(d.input) THEN At(d, d.idx) ELSE Value("I32", 0))

next_value(d) ==
    IF d.idx >= Len(d.input) THEN Err(d, InputEmpty)
    ELSE LET old_idx == d.idx
         IN Ok([d EXCEPT !.idx = d.idx + 1], At(d, old_idx))

\* Variant: next_i32 that takes the element before it looks at the tag.
next_i32_consuming(d) ==
    LET n == next_value(d)
    IN IF ~n.ok THEN n
       ELSE IF n.val.tag = "I32" THEN Ok(n.d, n.val.v)
       ELSE Err(n.d, TypeMismatch("i32", "i64"))

\* Variant: next_i32 that reports the end of the input as a mismatch.
next_i32_mismatch_when_empty(d) ==
    IF d.idx < Len(d.input) /\ At(d, d.idx).tag = "I32"
    THEN Ok([d EXCEPT !.idx = d.idx + 1], At(d, d.idx).v)
    ELSE Err(d, TypeMismatch("i32", "i64"))

\* Variant: next_i32 that makes up a 0 at the end of the input.
next_i32_default_when_empty(d) ==
    IF d.idx >= Len(d.input) THEN Ok(d, 0)
    ELSE IF At(d, d.idx).tag = "I32" THEN Ok([d EXCEPT !.idx = d.idx + 1], At(d, d.idx).v)
    ELSE Err(d, TypeMismatch("i32", "i64"))

\* Variant: next_i32 without its idx += 1.
next_i32_no_advance(d) ==
    LET p == peek_value(d)
    IN IF ~p.ok THEN p
       ELSE IF p.val.tag = "I32" THEN Ok(d, p.val.v)
       ELSE Err(d, TypeMismatch("i32", "i64"))

next_i32(d) ==
    LET p == peek_value(d)
    IN IF ~p.ok THEN p
       ELSE IF p.val.tag = "I32" THEN Ok([d EXCEPT !.idx = d.idx + 1], p.val.v)
       ELSE Err(d, TypeMismatch("i32", "i64"))

\* Variant: next_i64 without its idx += 1.
next_i64_no_advance(d) ==
    LET p == peek_value(d)
    IN IF ~p.ok THEN p
       ELSE IF p.val.tag = "I64" THEN Ok(d, p.val.v)
       ELSE Err(d, TypeMismatch("i64", "i32"))

\* Variant: next_i64 that accepts either tag.
next_i64_widening(d) ==
    LET p == peek_value(d)
    IN IF ~p.ok THEN p
       ELSE Ok([d EXCEPT !.idx = d.idx + 1], p.val.v)

next_i64(d) ==
    LET p == peek_value(d)
    IN IF ~p.ok THEN p
       ELSE IF p.val.tag = "I64" THEN Ok([d EXCEPT !.idx = d.idx + 1], p.val.v)
       ELSE Err(d, TypeMismatch("i64", "i32"))

\* ------------------------------------------------------------ built values

\* What the framework builds: a scalar of a width, or an aggregate of items.
Scalar(ty, v) == [ty |-> ty, v |-> v, items |-> <<>>]
Aggregate(ty, items) == [ty |-> ty, v |-> 0, items |-> items]
NoValue == [ty |-> "none", v |-> 0, items |-> <<>>]

\* serde's visitors for i32 and i64 keep the integer they are handed.
visit_i32(v) == Scalar("i32", v)
visit_i64(v) == Scalar("i64", v)

\* ------------------------------------------------ Deserializer trait methods

deserialize_i32(d) ==
    LET r == next_i32(d)
    IN IF r.ok THEN Ok(r.d, visit_i32(r.val)) ELSE r

deserialize_i64(d) ==
    LET r == next_i64(d)
    IN IF r.ok THEN Ok(r.d, visit_i64(r.val)) ELSE r

\* Variant: deserialize_any that asks for an i32 whatever the tag.
deserialize_any_as_i32(d) ==
    LET p == peek_value(d)
    IN IF ~p.ok THEN p ELSE deserialize_i32(d)

deserialize_any(d) ==
    LET p == peek_value(d)
    IN IF ~p.ok THEN p
       ELSE IF p.val.tag = "I32" THEN deserialize_i32(d)
       ELSE deserialize_i64(d)

\* Option<T::Value>, as next_element_seed returns it
None == [some |-> FALSE, v |-> NoValue]
Some(v) == [some |-> TRUE, v |-> v]

\* next_element_seed, line 426: the sequence source reports the end of the
\* elements when peek_value fails.
\* Variants: the end reported one element early, and never reported.
peek_is_err_off_by_one(d) == d.idx + 1 >= Len(d.input)

peek_is_err_never(d) == FALSE

peek_is_err(d) == ~peek_value(d).ok

\* seed.deserialize(&mut *self.de) for a scalar element: i32 and i64 ask for
\* their own width; a self-describing element asks deserialize_any.
seed_deserialize(seed, d) ==
    CASE seed = "i32" -> deserialize_i32(d)
      [] seed = "i64" -> deserialize_i64(d)
      [] OTHER -> deserialize_any(d)

\* Values::next_element_seed for a scalar element
next_element_seed(d, seed) ==
    IF peek_is_err(d) THEN Ok(d, None)
    ELSE LET r == seed_deserialize(seed, d)
         IN IF r.ok THEN Ok(r.d, Some(r.val)) ELSE r

\* ------------------------------------------------------------ target types

\* The shape of a target type T: Deserialize, as the framework sees it.
Type(k, elems) == [k |-> k, elems |-> elems]
NoType == Type("none", <<>>)

I32T == Type("i32", <<>>)
I64T == Type("i64", <<>>)

\* struct Point { x: i32, y: i32 }
Point == Type("struct", <<I32T, I32T>>)

\* struct Point64 { x: i64, y: i64 }
Point64 == Type("struct", <<I64T, I64T>>)

\* (Point, Point) and Vec<Point64>, the fields of Compound
PointPair == Type("tuple", <<Point, Point>>)
VecPoint64 == Type("seq", <<Point64>>)

\* struct Compound { points: (Point, Point), more_points: Vec<Point64> }
Compound == Type("struct", <<PointPair, VecPoint64>>)

\* The requests the backend answers with todo!()
UnsupportedKinds ==
    {"bool", "i8", "i16", "u8", "u16", "u32", "u64", "f32", "f64", "char",
     "str", "string", "bytes", "byte_buf", "option", "unit", "unit_struct",
     "newtype_struct", "tuple_struct", "map", "enum", "identifier",
     "ignored_any"}

\* Further targets a caller can declare: flat tuples of one width, sequences
\* of scalars, a struct without fields, mixed and nested aggregates, a
\* sequence followed by a field, and a struct with an unsupported field.
FlatTuple(n, t) == Type("tuple", [i \in 1..n |-> t])
VecI32 == Type("seq", <<I32T>>)
VecI64 == Type("seq", <<I64T>>)
Empty == Type("struct", <<>>)
Mixed == Type("tuple", <<I32T, I64T>>)
Nested64 == Type("tuple", <<I64T, Point64>>)
SeqThenField == Type("tuple", <<VecI32, I64T>>)
SeqThenPoint == Type("struct", <<VecPoint64, Point>>)
WithOption == Type("struct", <<I32T, Type("option", <<>>)>>)

Targets ==
    {I32T, I64T, Point, Point64, PointPair, VecPoint64, Compound}
    \cup {FlatTuple(n, I32T) : n \in 1..MaxFields}
    \cup {FlatTuple(n, I64T) : n \in 1..MaxFields}
    \cup {VecI32, VecI64, Empty, Mixed, Nested64, SeqThenField, SeqThenPoint,
          WithOption}
    \cup {Type(k, <<>>) : k \in UnsupportedKinds}

\* ------------------------------------------------------------------- state

VARIABLES
    input,    \* the borrowed slice of Value
    idx,      \* Deserializer.idx
    last,     \* SpecCursor: the last cursor call, its outcome, idx before it
    target,   \* Spec: the T of from_values::<T>
    ctl,      \* Spec: where the call stands: deser, visit, check, done
    cur,      \* Spec: the type whose deserialize is about to run (ctl = deser)
    stack,    \* Spec: the visit_seq calls in progress, innermost last
    built,    \* Spec: the t of line 131 (ctl = check)
    result,   \* Spec: what from_values returned, or that it panicked
    reads     \* Spec: the scalars consumed so far, in order

vars == <<input, idx, last, target, ctl, cur, stack, built, result, reads>>

D == Deserializer(input, idx)

\* prev: the call before the last one, and whether it failed with TypeMismatch.
NoLast ==
    [op |-> "from_values", seed |-> "", before |-> 0, ok |-> TRUE, val |-> 0, err |-> NoErr,
     prev |-> [op |-> "", mismatch |-> FALSE]]
NoResult == [kind |-> "none", val |-> NoValue, err |-> NoErr]

driverIdle ==
    /\ target = NoType /\ ctl = "idle" /\ cur = NoType /\ stack = <<>>
    /\ built = NoValue /\ result = NoResult /\ reads = <<>>

\* ------------------------------------------------- SpecCursor: the cursor API

InitCursor ==
    /\ input \in CursorInputs
    /\ idx = DeserializerFromValues(input).idx
    /\ last = NoLast
    /\ driverIdle

\* The call `op` returned r.
Called(op, seed, r) ==
    /\ idx' = r.d.idx
    /\ last' = [op |-> op, seed |-> seed, before |-> idx, ok |-> r.ok, val |-> r.val, err |-> r.err,
                prev |-> [op |-> last.op, mismatch |-> ~last.ok /\ last.err.kind = "TypeMismatch"]]
    /\ UNCHANGED <<input, target, ctl, cur, stack, built, result, reads>>

CallPeekValue == Called("peek_value", "", peek_value(D))
CallNextValue == Called("next_value", "", next_value(D))
CallNextI32 == Called("next_i32", "", next_i32(D))
CallNextI64 == Called("next_i64", "", next_i64(D))
CallDeserializeAny == Called("deserialize_any", "", deserialize_any(D))
CallNextElement == \E seed \in {"i32", "i64", "any"} : Called("next_element", seed, next_element_seed(D, seed))

NextCursor ==
    \/ CallPeekValue
    \/ CallNextValue
    \/ CallNextI32
    \/ CallNextI64
    \/ CallDeserializeAny
    \/ CallNextElement

SpecCursor == InitCursor /\ [][NextCursor]_vars

\* ------------------------------------------- Spec: one call of from_values

\* from_values, line 130: a cursor at index 0, then T::deserialize (line 131)
Init ==
    /\ input \in Inputs
    /\ target \in Targets
    /\ idx = DeserializerFromValues(input).idx
    /\ last = NoLast
    /\ ctl = "deser"
    /\ cur = target
    /\ stack = <<>>
    /\ built = NoValue
    /\ result = NoResult
    /\ reads = <<>>

\* A visit_seq in progress: the aggregate's type, the elements built so far,
\* and the index at which it started.
Frame(ty, acc, start) == [ty |-> ty, acc |-> acc, start |-> start]
Top == stack[Len(stack)]
Pop == SubSeq(stack, 1, Len(stack) - 1)

\* Ok(v) comes back to the caller: to the visit_seq that asked for an element
\* (next_element_seed's .map(Some)), or to from_values when none is left.
Return(callers, v) ==
    /\ cur' = NoType
    /\ UNCHANGED result
    /\ IF callers = <<>>
       THEN /\ ctl' = "check"
            /\ built' = v
            /\ stack' = callers
       ELSE /\ ctl' = "visit"
            /\ built' = built
            /\ stack' = [callers EXCEPT ![Len(callers)].acc = Append(@, v)]

\* Variant: next_element_seed takes an element that fails to build for the
\* end of the elements (.ok() in place of .map(Some)).
FailSwallowed(e) ==
    /\ cur' = NoType
    /\ IF stack # <<>> /\ Top.ty.k = "seq"
       THEN /\ result' = result
            /\ IF Pop = <<>>
               THEN /\ ctl' = "check"
                    /\ built' = Aggregate("seq", Top.acc)
                    /\ stack' = Pop
               ELSE /\ ctl' = "visit"
                    /\ built' = built
                    /\ stack' = [Pop EXCEPT ![Len(Pop)].acc = Append(@, Aggregate("seq", Top.acc))]
       ELSE /\ ctl' = "done"
            /\ stack' = <<>>
            /\ built' = built
            /\ result' = [kind |-> "Err", val |-> NoValue,
                          err |-> IF stack = <<>> THEN e ELSE Message("invalid length")]

\* Variant: from_values looks at the input left over before it looks at the
\* outcome of T::deserialize.
FailTrailingFirst(e) ==
    /\ ctl' = "done"
    /\ cur' = NoType
    /\ stack' = <<>>
    /\ built' = built
    /\ result' = [kind |-> "Err", val |-> NoValue,
                  err |-> IF idx < Len(input) THEN InputNotEmpty ELSE e]

\* Err(e) comes back through every `?` up to from_values, which returns it.
Fail(e) ==
    /\ ctl' = "done"
    /\ cur' = NoType
    /\ stack' = <<>>
    /\ built' = built
    /\ result' = [kind |-> "Err", val |-> NoValue, err |-> e]

\* todo!() panics: the call never returns.
Panic ==
    /\ ctl' = "done"
    /\ cur' = NoType
    /\ stack' = <<>>
    /\ built' = built
    /\ result' = [kind |-> "panic", val |-> NoValue, err |-> NoErr]

\* A scalar request answered by r = deserialize_i32(D) or deserialize_i64(D).
ScalarStep(ty, r) ==
    /\ idx' = r.d.idx
    /\ reads' = IF r.ok THEN Append(reads, [at |-> idx, ty |-> ty, v |-> r.val.v]) ELSE reads
    /\ IF r.ok THEN Return(stack, r.val) ELSE Fail(r.err)
    /\ UNCHANGED <<input, target, last>>

\* i32::deserialize calls deserializer.deserialize_i32(visitor)
DeserializeI32 ==
    /\ ctl = "deser"
    /\ cur.k = "i32"
    /\ ScalarStep("i32", deserialize_i32(D))

\* i64::deserialize calls deserializer.deserialize_i64(visitor)
DeserializeI64 ==
    /\ ctl = "deser"
    /\ cur.k = "i64"
    /\ ScalarStep("i64", deserialize_i64(D))

\* deserialize_seq: visitor.visit_seq(Values::new(&mut self))
deserialize_seq(ty) ==
    /\ stack' = Append(stack, Frame(ty, <<>>, idx))
    /\ ctl' = "visit"
    /\ cur' = NoType
    /\ UNCHANGED <<input, idx, last, target, built, result, reads>>

\* A derived struct calls deserialize_struct, which is deserialize_seq.
DeserializeStruct ==
    /\ ctl = "deser"
    /\ cur.k = "struct"
    /\ deserialize_seq(cur)

\* A tuple calls deserialize_tuple, which is deserialize_seq.
DeserializeTuple ==
    /\ ctl = "deser"
    /\ cur.k = "tuple"
    /\ deserialize_seq(cur)

\* Vec<T> calls deserialize_seq.
DeserializeSeq ==
    /\ ctl = "deser"
    /\ cur.k = "seq"
    /\ deserialize_seq(cur)

\* Every other request reaches a todo!().
DeserializeUnsupported ==
    /\ ctl = "deser"
    /\ cur.k \in UnsupportedKinds
    /\ idx' = idx
    /\ Panic
    /\ UNCHANGED <<input, target, last, reads>>

\* The visitor of a struct or tuple asks for one element per declared field;
\* the visitor of a Vec asks until it is told None.
WantsElement(f) == f.ty.k = "seq" \/ Len(f.acc) < Len(f.ty.elems)
ElementType(f) == IF f.ty.k = "seq" THEN f.ty.elems[1] ELSE f.ty.elems[Len(f.acc) + 1]

\* next_element_seed with input left: seed.deserialize(&mut *self.de)
NextElementSome ==
    /\ ctl = "visit"
    /\ WantsElement(Top)
    /\ ~peek_is_err(D)
    /\ ctl' = "deser"
    /\ cur' = ElementType(Top)
    /\ UNCHANGED <<input, idx, last, target, stack, built, result, reads>>

\* Variant: next_element_seed with peek_value()? in place of is_err().
NextElementNonePropagates ==
    /\ ctl = "visit"
    /\ WantsElement(Top)
    /\ peek_is_err(D)
    /\ Fail(peek_value(D).err)
    /\ UNCHANGED <<input, idx, last, target, reads>>

\* next_element_seed with no input left returns Ok(None): a Vec's visitor
\* returns the elements it has, a struct's or tuple's visitor fails with
\* Error::invalid_length, which is Error::custom.
NextElementNone ==
    /\ ctl = "visit"
    /\ WantsElement(Top)
    /\ peek_is_err(D)
    /\ IF Top.ty.k = "seq"
       THEN Return(Pop, Aggregate("seq", Top.acc))
       ELSE Fail(Message("invalid length"))
    /\ UNCHANGED <<input, idx, last, target, reads>>

\* The visitor of a struct or tuple has all its fields and returns the value.
VisitSeqDone ==
    /\ ctl = "visit"
    /\ ~WantsElement(Top)
    /\ Return(Pop, Aggregate(Top.ty.k, Top.acc))
    /\ UNCHANGED <<input, idx, last, target, reads>>

\* Variant: the check of lines 132-136 off by one.
from_values_off_by_one(d, t) ==
    IF d.idx + 1 >= Len(d.input)
    THEN [kind |-> "Ok", val |-> t, err |-> NoErr]
    ELSE [kind |-> "Err", val |-> NoValue, err |-> InputNotEmpty]

\* Variant: from_values without the check of lines 132-136.
from_values_unchecked(d, t) == [kind |-> "Ok", val |-> t, err |-> NoErr]

\* from_values, lines 132-136
from_values_result(d, t) ==
    IF d.idx >= Len(d.input)
    THEN [kind |-> "Ok", val |-> t, err |-> NoErr]
    ELSE [kind |-> "Err", val |-> NoValue, err |-> InputNotEmpty]

FromValuesCheck ==
    /\ ctl = "check"
    /\ result' = from_values_result(D, built)
    /\ ctl' = "done"
    /\ UNCHANGED <<input, idx, last, target, cur, stack, built, reads>>

Next ==
    \/ DeserializeI32
    \/ DeserializeI64
    \/ DeserializeStruct
    \/ DeserializeTuple
    \/ DeserializeSeq
    \/ DeserializeUnsupported
    \/ NextElementSome
    \/ NextElementNone
    \/ VisitSeqDone
    \/ FromValuesCheck

Spec == Init /\ [][Next]_vars

\* ----------------------------------------------------- shapes, for the claims

IsScalar(t) == t.k \in {"i32", "i64"}
IsTupleLike(t) == t.k \in {"struct", "tuple"}
TagOf(k) == IF k = "i32" THEN "I32" ELSE "I64"

Tags(s) == [i \in 1..Len(s) |-> s[i].tag]

RECURSIVE Concat(_)
Concat(ss) == IF ss = <<>> THEN <<>> ELSE Head(ss) \o Concat(Tail(ss))

\* A scalar, or a tuple or struct of fixed shapes.
RECURSIVE FixedShape(_)
FixedShape(t) ==
    \/ IsScalar(t)
    \/ IsTupleLike(t) /\ \A i \in 1..Len(t.elems) : FixedShape(t.elems[i])

\* The tags a fixed shape asks for, left to right.
RECURSIVE FlatKinds(_)
FlatKinds(t) ==
    IF IsScalar(t) THEN <<TagOf(t.k)>>
    ELSE Concat([i \in 1..Len(t.elems) |-> FlatKinds(t.elems[i])])

\* The kinds at the leaves of a type.
RECURSIVE LeafKinds(_)
LeafKinds(t) ==
    IF t.k \in {"struct", "tuple", "seq"}
    THEN UNION {LeafKinds(t.elems[i]) : i \in 1..Len(t.elems)}
    ELSE {t.k}

\* A flat tuple or struct of n >= 1 fields, all of the scalar type s.
IsFlatOf(t, s) ==
    /\ IsTupleLike(t)
    /\ Len(t.elems) >= 1
    /\ \A i \in 1..Len(t.elems) : t.elems[i] = s

Returned(e) == result = [kind |-> "Err", val |-> NoValue, err |-> e]

\* --------------------------------------------------------------------- C1

\* C1: when the input holds more scalars than a fixed-shape target asks for
\* and its prefix matches the shape kind for kind, from_values returns
\* Err(InputNotEmpty) and no value; from_values returns Ok only with
\* idx = input.len().
C1_TrailingInputRejected ==
    ctl = "done" =>
        /\ (/\ FixedShape(target)
            /\ Len(input) > Len(FlatKinds(target))
            /\ SubSeq(Tags(input), 1, Len(FlatKinds(target))) = FlatKinds(target))
           => Returned(InputNotEmpty)
        /\ result.kind = "Ok" => idx = Len(input)

C1_Witness ==
    /\ ctl = "done"
    /\ target = PointPair
    /\ Len(input) = 5
    /\ Returned(InputNotEmpty)
    /\ built.ty = "tuple"

\* --------------------------------------------------------------------- C2

OtherExtractor(op) == IF op = "next_i32" THEN "next_i64" ELSE "next_i32"

\* C2: a next_i32 or next_i64 that fails with TypeMismatch leaves idx as it
\* was, and the other extractor called right after it succeeds, returns the
\* integer of the element at that index and advances idx by one.
C2_AtomicMismatch ==
    /\ (last.op \in {"next_i32", "next_i64"} /\ ~last.ok /\ last.err.kind = "TypeMismatch")
       => idx = last.before
    /\ (/\ last.op \in {"next_i32", "next_i64"}
        /\ last.prev.mismatch
        /\ last.prev.op = OtherExtractor(last.op))
       => /\ last.ok
          /\ last.val = input[last.before + 1].v
          /\ idx = last.before + 1

C2_Witness ==
    /\ last.op = "next_i64"
    /\ last.prev.op = "next_i32"
    /\ last.prev.mismatch
    /\ last.ok
    /\ last.before = 1

\* --------------------------------------------------------------------- C3

\* C3: from_values of a non-empty input of I32 values only, against a target
\* whose scalars are all i64, returns Err(TypeMismatch {expected: i64, found:
\* i32}); and no scalar is ever handed out for a request of the other width.
C3_KindStrictness ==
    /\ (/\ ctl = "done"
        /\ input # <<>>
        /\ \A i \in 1..Len(input) : input[i].tag = "I32"
        /\ LeafKinds(target) = {"i64"})
       => Returned(TypeMismatch("i64", "i32"))
    /\ \A k \in 1..Len(reads) : input[reads[k].at + 1].tag = TagOf(reads[k].ty)

C3_Witness ==
    /\ ctl = "done"
    /\ target = Point64
    /\ input = <<Value("I32", -1), Value("I32", 2)>>
    /\ Returned(TypeMismatch("i64", "i32"))

\* --------------------------------------------------------------------- C4

\* C4: from_values of N >= 1 scalars of one kind, against a flat tuple or
\* struct of N fields of that width, returns Ok, and field i of the value is
\* scalar i of the input.
C4_RoundTrip ==
    \A s \in {I32T, I64T} :
        (/\ ctl = "done"
         /\ IsFlatOf(target, s)
         /\ Len(input) = Len(target.elems)
         /\ \A i \in 1..Len(input) : input[i].tag = TagOf(s.k))
        => /\ result.kind = "Ok"
           /\ result.val.ty = target.k
           /\ Len(result.val.items) = Len(input)
           /\ \A i \in 1..Len(input) : result.val.items[i] = Scalar(s.k, input[i].v)

C4_Witness ==
    /\ ctl = "done"
    /\ target = FlatTuple(MaxFields, I32T)
    /\ result.kind = "Ok"
    /\ input[1].v # input[2].v

\* --------------------------------------------------------------------- C5

\* The Point, or Point64, built from the two scalars at i and i + 1.
PointAt(ty, i) == Aggregate("struct", <<Scalar(ty, input[i].v), Scalar(ty, input[i + 1].v)>>)

\* Four I32 followed by 2 * m I64, m >= 1.
IsCompoundInput ==
    /\ Len(input) >= 6
    /\ Len(input) % 2 = 0
    /\ \A i \in 1..Len(input) : input[i].tag = IF i <= 4 THEN "I32" ELSE "I64"

\* C5: the k-th scalar read of a from_values call is input[k-1]; and for the
\* target Compound and four I32 followed by 2 * m I64, from_values returns
\* Ok with points built from the first four scalars in order and more_points
\* holding the m Point64 built from the following pairs in order.
C5_NestedComposition ==
    /\ \A k \in 1..Len(reads) : reads[k].at = k - 1 /\ reads[k].v = input[k].v
    /\ (ctl = "done" /\ target = Compound /\ IsCompoundInput)
       => result =
            [kind |-> "Ok",
             val |-> Aggregate("struct",
                        <<Aggregate("tuple", <<PointAt("i32", 1), PointAt("i32", 3)>>),
                          Aggregate("seq", [j \in 1..((Len(input) - 4) \div 2) |->
                                                PointAt("i64", 3 + 2 * j)])>>),
             err |-> NoErr]

C5_Witness ==
    /\ ctl = "done"
    /\ target = Compound
    /\ Len(input) = 8
    /\ result.kind = "Ok"
    /\ Len(reads) = 8

\* --------------------------------------------------------------------- C6

\* A scalar, a tuple or struct with at least one field, or a sequence, built
\* of supported shapes only.
NonTrivial(t) ==
    /\ LeafKinds(t) \subseteq {"i32", "i64"}
    /\ IsTupleLike(t) => Len(t.elems) >= 1

\* C6 as stated: from_values of the empty input against a non-trivial target
\* returns Err(InputEmpty).
C6_EmptyInputIsInputEmpty ==
    (ctl = "done" /\ input = <<>> /\ NonTrivial(target)) => Returned(InputEmpty)

\* C6, amended: from_values of the empty input returns Err(InputEmpty) for a
\* scalar target, Err(Message) (the framework's invalid length) for a tuple
\* or struct with at least one field, and Ok of the empty sequence for a
\* variable-length sequence; no scalar is read.
C6_EmptyInput ==
    (ctl = "done" /\ input = <<>> /\ NonTrivial(target)) =>
        /\ IsScalar(target) => Returned(InputEmpty)
        /\ IsTupleLike(target) => Returned(Message("invalid length"))
        /\ target.k = "seq" => result = [kind |-> "Ok", val |-> Aggregate("seq", <<>>), err |-> NoErr]
        /\ reads = <<>>

C6_Witness ==
    /\ ctl = "done"
    /\ input = <<>>
    /\ target = Point
    /\ Returned(Message("invalid length"))

\* --------------------------------------------------------------------- C7

\* The scalars of a built value, left to right.
RECURSIVE Flatten(_)
Flatten(v) ==
    IF v.ty \in {"i32", "i64"} THEN <<Value(TagOf(v.ty), v.v)>>
    ELSE Concat([i \in 1..Len(v.items) |-> Flatten(v.items[i])])

\* The value the step hands to the caller of the innermost visit_seq.
HandedBack ==
    IF Pop = <<>> THEN built' ELSE stack'[Len(Pop)].acc[Len(stack'[Len(Pop)].acc)]

\* C7: a sequence's visitor that asks for an element is given one to build
\* while input remains, and with no input left it returns, without error,
\* the elements it has, which are the scalars from its start to the end of
\* the input; no scalar is read at an index >= input.len().
C7_ExhaustionSignaling ==
    [][(ctl = "visit" /\ Top.ty.k = "seq") =>
        IF idx < Len(input)
        THEN /\ ctl' = "deser"
             /\ cur' = Top.ty.elems[1]
             /\ stack' = stack
             /\ idx' = idx
        ELSE /\ ctl' \in {"visit", "check"}
             /\ result' = result
             /\ Len(stack') = Len(Pop)
             /\ HandedBack = Aggregate("seq", Top.acc)
             /\ Flatten(HandedBack) = SubSeq(input, Top.start + 1, Len(input))
             /\ \A k \in 1..Len(reads') : reads'[k].at < Len(input)]_vars

C7_Witness ==
    /\ ctl = "done"
    /\ target = VecPoint64
    /\ result.kind = "Ok"
    /\ Len(result.val.items) = 2

\* --------------------------------------------------------------------- C8

\* C8: every call ends by returning Ok or an Error; none ends in a panic.
C8_NeverPanics == result.kind # "panic"

\* --------------------------------------------------------------------- C9

\* C9: next_i32 and next_i64 at idx = input.len() fail with InputEmpty; at
\* idx < input.len() they never fail with InputEmpty, and fail with
\* TypeMismatch exactly when the element's tag is not the one asked for.
C9_EndOfInputDistinct ==
    last.op \in {"next_i32", "next_i64"} =>
        LET asked == IF last.op = "next_i32" THEN "I32" ELSE "I64"
        IN IF last.before = Len(input)
           THEN ~last.ok /\ last.err = InputEmpty
           ELSE /\ last.before < Len(input)
                /\ last.err.kind # "InputEmpty"
                /\ (~last.ok /\ last.err.kind = "TypeMismatch")
                   <=> input[last.before + 1].tag # asked
                /\ last.ok <=> input[last.before + 1].tag = asked

C9_Witness ==
    /\ last.op = "next_i32"
    /\ input # <<>>
    /\ last.before = Len(input)
    /\ ~last.ok
    /\ last.err = InputEmpty

\* -------------------------------------------------------------------- C10

\* The calls that consume a scalar when they succeed.
Consumed ==
    \/ last.op \in {"next_value", "next_i32", "next_i64", "deserialize_any"} /\ last.ok
    \/ last.op = "next_element" /\ last.ok /\ last.val.some

\* C10: 0 <= idx <= input.len() in every state; idx never decreases; a call
\* that reads a scalar increases it by exactly one, and every other call (a
\* failed one, a peek, a next_element at the end) leaves it unchanged.
C10_CursorInvariant ==
    /\ 0 <= idx
    /\ idx <= Len(input)
    /\ idx >= last.before
    /\ idx = IF Consumed THEN last.before + 1 ELSE last.before

C10_Witness ==
    /\ Len(input) = MaxCursorLen
    /\ idx = Len(input)
    /\ last.op = "next_value"
    /\ last.ok

\* -------------------------------------------------------------------- C11

\* The number of scalars in the elements a visit_seq has built.
FlatCount(acc) == Len(Concat([i \in 1..Len(acc) |-> Flatten(acc[i])]))

\* The declared type of element i of the aggregate a frame builds.
ElementTypeAt(f, i) == IF f.ty.k = "seq" THEN f.ty.elems[1] ELSE f.ty.elems[i]

\* Where the element after the ones frame j has built begins: at the start of
\* the visit_seq building it, or at idx.
NextStart(j) == IF j < Len(stack) THEN stack[j + 1].start ELSE idx

C11_Advanced ==
    \A j \in 1..Len(stack) :
        /\ NextStart(j) = stack[j].start + FlatCount(stack[j].acc)
        /\ \A i \in 1..Len(stack[j].acc) :
              FixedShape(ElementTypeAt(stack[j], i))
              => Len(Flatten(stack[j].acc[i])) = Len(FlatKinds(ElementTypeAt(stack[j], i)))

C11_Step ==
    (ctl = "visit" /\ WantsElement(Top)) =>
        IF idx >= Len(input)
        THEN /\ idx' = idx
             /\ reads' = reads
             /\ ctl' # "deser"
             /\ \A j \in 1..Len(stack') : stack'[j].start = stack[j].start
        ELSE /\ idx' = idx
             /\ ctl' = "deser"
             /\ cur' = ElementType(Top)
             /\ stack' = stack

\* C11: next_element with the input exhausted hands out no element and
\* leaves idx unchanged; with input left it has one Element built at the
\* current index, and once that is built idx has advanced by the element's
\* flattened scalar count (1 for a scalar, the number of scalar fields for a
\* tuple or struct), so each visit_seq starts where the one before stopped.
C11_NextElementAdvance == []C11_Advanced /\ [][C11_Step]_vars

C11_Witness ==
    /\ ctl = "visit"
    /\ target = PointPair
    /\ Len(stack) = 1
    /\ Len(Top.acc) = 1
    /\ idx = 2

\* -------------------------------------------------------------------- C12

\* The error the request at idx raises: none is left to read, or the element
\* there has the other tag.
RaisedAtIdx(e) ==
    \/ e = InputEmpty /\ idx = Len(input)
    \/ /\ idx < Len(input)
       /\ \/ e = TypeMismatch("i32", "i64") /\ input[idx + 1].tag = "I64"
          \/ e = TypeMismatch("i64", "i32") /\ input[idx + 1].tag = "I32"
    \/ e = Message("invalid length") /\ idx = Len(input)

C12_Returned ==
    result.kind = "Err" =>
        /\ ctl = "done"
        /\ Len(reads) = idx
        /\ IF result.err = InputNotEmpty
           THEN /\ built # NoValue
                /\ Flatten(built) = SubSeq(input, 1, idx)
                /\ idx < Len(input)
           ELSE /\ built = NoValue
                /\ RaisedAtIdx(result.err)

C12_Step ==
    /\ result.kind = "Err" => UNCHANGED <<result, idx, reads, built>>
    /\ (result.kind = "none" /\ result'.kind = "Err" /\ result'.err # InputNotEmpty)
       => idx' = idx /\ reads' = reads

\* C12: the error from_values returns is the first one raised: it is the one
\* the request at the final idx raises, no scalar is read with or after it,
\* nothing replaces it, and InputNotEmpty is returned only when the target
\* was built.
C12_ShortCircuit == []C12_Returned /\ [][C12_Step]_vars

C12_Witness ==
    /\ ctl = "done"
    /\ target = Compound
    /\ Returned(TypeMismatch("i64", "i32"))
    /\ idx = 4
    /\ Len(input) = 5

\* -------------------------------------------------------------------- C13

C13_Peeked ==
    last.op = "peek_value" =>
        /\ idx = last.before
        /\ last.ok <=> last.before < Len(input)
        /\ last.ok => last.val = input[last.before + 1]
        /\ ~last.ok => last.err = InputEmpty /\ last.before = Len(input)

C13_Step ==
    /\ input' = input
    /\ (last.op = "peek_value" /\ last'.op = "peek_value")
       => /\ idx' = idx
          /\ last'.ok = last.ok
          /\ last'.err = last.err
          /\ last.ok => last'.val = last.val

\* C13: peek_value returns the element at idx, fails with InputEmpty exactly
\* when idx = input.len(), and leaves idx and the input as they were, so a
\* peek that follows a peek returns the same.
C13_PeekReadOnly == []C13_Peeked /\ [][C13_Step]_vars

C13_Witness ==
    /\ last.op = "peek_value"
    /\ last.prev.op = "peek_value"
    /\ last.ok
    /\ last.before = 2
    /\ last.val = input[3]

\* -------------------------------------------------------------------- C14

\* C14: deserialize_any at idx < input.len() consumes one scalar and hands
\* the visitor an i32 for an I32 element and an i64 for an I64 element, with
\* the element's value, never a TypeMismatch; at idx = input.len() it fails
\* with InputEmpty and consumes nothing.
C14_AnyDispatch ==
    last.op = "deserialize_any" =>
        IF last.before < Len(input)
        THEN /\ last.ok
             /\ idx = last.before + 1
             /\ last.val = IF input[last.before + 1].tag = "I32"
                           THEN Scalar("i32", input[last.before + 1].v)
                           ELSE Scalar("i64", input[last.before + 1].v)
        ELSE /\ ~last.ok
             /\ last.err = InputEmpty
             /\ idx = last.before

C14_Witness ==
    /\ last.op = "deserialize_any"
    /\ last.ok
    /\ last.before = 1
    /\ input[2].tag = "I64"
    /\ last.val = Scalar("i64", input[2].v)

\* -------------------------------------------------------------------- C15

\* C15: when from_values returns Ok(t), the scalars of t, left to right and
\* with their kinds, are the whole input.
C15_LosslessSuccess ==
    (ctl = "done" /\ result.kind = "Ok") => Flatten(result.val) = input

C15_Witness ==
    /\ ctl = "done"
    /\ target = Mixed
    /\ result.kind = "Ok"
    /\ Flatten(result.val) = <<Value("I32", 2), Value("I64", -1)>>

\* -------------------------------------------------------------------- C16

\* The input is a proper prefix of an input that matches the fixed shape t.
ShortOfFixed(t) ==
    /\ FixedShape(t)
    /\ Len(input) < Len(FlatKinds(t))
    /\ Tags(input) = SubSeq(FlatKinds(t), 1, Len(input))

\* The input is whole elements of the sequence t, then part of one more.
ShortOfSeq(t) ==
    /\ t.k = "seq"
    /\ FixedShape(t.elems[1])
    /\ LET kinds == FlatKinds(t.elems[1])
       IN /\ Len(input) % Len(kinds) # 0
          /\ \A i \in 1..Len(input) : input[i].tag = kinds[((i - 1) % Len(kinds)) + 1]

\* The input of harder_test's shape cut in the middle of a Point64.
ShortOfCompound ==
    /\ target = Compound
    /\ Len(input) >= 5
    /\ Len(input) % 2 = 1
    /\ \A i \in 1..Len(input) : input[i].tag = IF i <= 4 THEN "I32" ELSE "I64"

\* C16: from_values of an input that ends before the target's shape is
\* filled (in a flat or nested tuple or struct, or in the last element of a
\* sequence) returns an error, never Ok: InputEmpty for a scalar target, the
\* framework's invalid length for an aggregate.
C16_ShortInput ==
    (ctl = "done" /\ (ShortOfFixed(target) \/ ShortOfSeq(target) \/ ShortOfCompound))
    => Returned(IF IsScalar(target) THEN InputEmpty ELSE Message("invalid length"))

C16_Witness ==
    /\ ctl = "done"
    /\ target = PointPair
    /\ Len(input) = 3
    /\ Returned(Message("invalid length"))
    /\ idx = 3

\* -------------------------------------------------------------------- C17

RECURSIVE HasSeq(_)
HasSeq(t) ==
    \/ t.k = "seq"
    \/ IsTupleLike(t) /\ \E i \in 1..Len(t.elems) : HasSeq(t.elems[i])

\* A tuple or struct in which a sequence is followed by a further field.
RECURSIVE SeqBeforeField(_)
SeqBeforeField(t) ==
    /\ IsTupleLike(t)
    /\ \/ \E i \in 1..(Len(t.elems) - 1) : HasSeq(t.elems[i])
       \/ \E i \in 1..Len(t.elems) : SeqBeforeField(t.elems[i])

InsideSeq == \E j \in 1..Len(stack) : stack[j].ty.k = "seq"

C17_NeverOk ==
    (ctl = "done" /\ SeqBeforeField(target)) => result.kind = "Err"

C17_Step ==
    (/\ ctl = "deser"
     /\ IsScalar(cur)
     /\ InsideSeq
     /\ idx < Len(input)
     /\ input[idx + 1].tag # TagOf(cur.k))
    => /\ ctl' = "done"
       /\ result' = [kind |-> "Err", val |-> NoValue,
                     err |-> IF cur.k = "i32" THEN TypeMismatch("i32", "i64")
                             ELSE TypeMismatch("i64", "i32")]

\* C17: a scalar asked for inside a sequence while input remains, whose
\* element has the other kind, makes from_values return TypeMismatch: the
\* sequence is not closed there; and from_values against a tuple or struct
\* in which a sequence is followed by a further field never returns Ok.
C17_SeqEndsOnlyAtExhaustion == []C17_NeverOk /\ [][C17_Step]_vars

C17_Witness ==
    /\ ctl = "done"
    /\ target = SeqThenField
    /\ input = <<Value("I32", 2), Value("I64", -1)>>
    /\ Returned(TypeMismatch("i32", "i64"))
    /\ idx = 1

====
